---- MODULE Spec2Model ----
(***************************************************************************)
(* Model of the procedural-macro FFI bridge of scarb                       *)
(* (scarb/src/compiler/plugin/proc_macro/ffi.rs).                          *)
(*                                                                         *)
(* One shared library (the module at the package's path) is loaded into    *)
(* one ProcMacroInstance.  Host threads share the instance by reference    *)
(* and call generate_code (expand) and aux_data_callback                   *)
(* (propagate_aux_data) on it.  Every statement of the two methods is one  *)
(* step of the calling thread; a foreign call is two steps, the call and   *)
(* its return.  The plugin is the environment: what it returns is chosen   *)
(* nondeterministically among the values a C function of that signature    *)
(* can return.                                                             *)
(***************************************************************************)
EXTENDS Integers, Sequences, FiniteSets, TLC

\* ---------------------------------------------------------------- bounds
MaxCalls == 2
MaxAux == 2

\* Two host threads share the one instance.
Threads == {1, 2}

\* ------------------------------------------------------------- constants
SymbolSet == {"expand", "free_result", "aux_data_callback"}
PackageIds == {"macro_a", "macro_b"}
PluginKinds == {"identity", "upper"}
NUL == "NUL"
TokenInputs == {<<>>, <<"f", "o", "o">>, <<"F", "o">>}
AuxPayloads == {"a", "b"}

RECURSIVE SeqsUpTo(_, _)
SeqsUpTo(S, n) ==
    IF n = 0 THEN {<<>>}
    ELSE LET shorter == SeqsUpTo(S, n - 1)
         IN  shorter \cup {Append(s, x) : s \in {q \in shorter : Len(q) = n - 1}, x \in S}

AuxInputs == SeqsUpTo(AuxPayloads, MaxAux)

\* The modules a path can point at: a file that cannot be opened, or an
\* openable library exporting any subset of the three symbols.
Modules ==
    {[openable |-> FALSE, exports |-> {}]}
        \cup {[openable |-> TRUE, exports |-> E] : E \in SUBSET SymbolSet}

\* ------------------------------------------------------------ wire values
\* A wire value is identified by the call that made it and its role there.  A
\* thread is in one call at a time, so its id names its current call; the
\* wire values of a finished call are forgotten when its thread starts the
\* next one.
NoHandle == [call |-> 0, role |-> "none", idx |-> 0]
Handle(c, role, i) == [call |-> c, role |-> role, idx |-> i]
NoWrapper == [input |-> NoHandle, output |-> NoHandle]
NoResult == [present |-> FALSE, token_stream |-> <<>>]

VARIABLES
    module,     \* the file at the package's shared-library path
    package,    \* the package whose macro is loaded
    plugin,     \* what the library's expand does with the text
    loadState,  \* "none" | "loaded" | "failed" | "dropped"
    loadError,  \* the error chain try_new returned (<<>> when none)
    lookups,    \* the symbol names looked up, in order
    opens,      \* number of Library::new attempts
    libState,   \* "unopened" | "open" | "closed"
    closes,     \* number of times the Library was dropped (dlclose)
    instance,   \* the ProcMacroInstance, or NoInstance
    th,         \* per host thread: the call it is in and its locals
    heap,       \* every wire value allocated so far
    started,    \* number of calls started
    ffi,        \* number of invocations of each foreign entry point
    observed,   \* what the last metadata accessor call returned
    inflight    \* foreign calls entered and not yet returned

vars == <<module, package, plugin, loadState, loadError, lookups, opens,
          libState, closes, instance, th, heap, started, ffi, observed,
          inflight>>

loadVars == <<loadState, loadError, lookups, opens, libState, closes, instance>>
envVars == <<module, package, plugin, observed>>
fixedVars == <<module, package, plugin>>

\* ------------------------------------------------------------------ load
\* The context message attached to a failed lookup of each symbol.
ContextMsg(name) ==
    CASE name = "expand" -> "failed to load expand function for procedural macro"
      [] name = "free_result" -> "failed to load free_result function for procedural macro"
      [] name = "aux_data_callback" ->
            "failed to load aux_data_callback function for procedural macro"

\* The platform loader's own messages, at the bottom of an error chain.
DlOpenError == "DlOpen"
DlSymError == "DlSym"

NoVTable == [expand |-> "null", free_result |-> "null", aux_data_callback |-> "null"]
NoInstance == [exists |-> FALSE, package_id |-> "none",
               plugin |-> [library |-> "none", vtable |-> NoVTable]]

\* library.get(name): the symbol, if the library exports it.
LibraryGet(library, name) == name \in library.exports

\* VTableV0::try_new without the lookup of aux_data_callback.
VTableV0_try_new_SkipsAuxDataCallback(library) ==
    IF ~LibraryGet(library, "expand")
    THEN [ok |-> FALSE, vtable |-> NoVTable, lookups |-> <<"expand">>,
          err |-> <<ContextMsg("expand"), DlSymError>>]
    ELSE IF ~LibraryGet(library, "free_result")
    THEN [ok |-> FALSE, vtable |-> NoVTable,
          lookups |-> <<"expand", "free_result">>,
          err |-> <<ContextMsg("free_result"), DlSymError>>]
    ELSE [ok |-> TRUE,
          vtable |-> [expand |-> "expand", free_result |-> "free_result",
                      aux_data_callback |-> "aux_data_callback"],
          lookups |-> <<"expand", "free_result">>,
          err |-> <<>>]

\* VTableV0::try_new that looks free_result up before expand.
VTableV0_try_new_FreeResultFirst(library) ==
    IF ~LibraryGet(library, "free_result")
    THEN [ok |-> FALSE, vtable |-> NoVTable, lookups |-> <<"free_result">>,
          err |-> <<ContextMsg("free_result"), DlSymError>>]
    ELSE IF ~LibraryGet(library, "expand")
    THEN [ok |-> FALSE, vtable |-> NoVTable,
          lookups |-> <<"free_result", "expand">>,
          err |-> <<ContextMsg("expand"), DlSymError>>]
    ELSE IF ~LibraryGet(library, "aux_data_callback")
    THEN [ok |-> FALSE, vtable |-> NoVTable,
          lookups |-> <<"free_result", "expand", "aux_data_callback">>,
          err |-> <<ContextMsg("aux_data_callback"), DlSymError>>]
    ELSE [ok |-> TRUE,
          vtable |-> [expand |-> "expand", free_result |-> "free_result",
                      aux_data_callback |-> "aux_data_callback"],
          lookups |-> <<"free_result", "expand", "aux_data_callback">>,
          err |-> <<>>]

\* VTableV0::try_new: three lookups in program order, each with `?`.
VTableV0_try_new(library) ==
    IF ~LibraryGet(library, "expand")
    THEN [ok |-> FALSE, vtable |-> NoVTable, lookups |-> <<"expand">>,
          err |-> <<ContextMsg("expand"), DlSymError>>]
    ELSE IF ~LibraryGet(library, "free_result")
    THEN [ok |-> FALSE, vtable |-> NoVTable,
          lookups |-> <<"expand", "free_result">>,
          err |-> <<ContextMsg("free_result"), DlSymError>>]
    ELSE IF ~LibraryGet(library, "aux_data_callback")
    THEN [ok |-> FALSE, vtable |-> NoVTable,
          lookups |-> <<"expand", "free_result", "aux_data_callback">>,
          err |-> <<ContextMsg("aux_data_callback"), DlSymError>>]
    ELSE [ok |-> TRUE,
          vtable |-> [expand |-> "expand", free_result |-> "free_result",
                      aux_data_callback |-> "aux_data_callback"],
          lookups |-> <<"expand", "free_result", "aux_data_callback">>,
          err |-> <<>>]

\* Plugin::try_new that goes on to resolve the table of a library it could
\* not open.
Plugin_try_new_ResolvesUnopened(library_path) ==
    LET v == VTableV0_try_new(library_path)
    IN  IF ~v.ok
        THEN [ok |-> FALSE, plugin |-> NoInstance.plugin, err |-> v.err,
              opens |-> 1, lookups |-> v.lookups,
              libState |-> IF library_path.openable THEN "closed" ELSE "unopened",
              closes |-> IF library_path.openable THEN 1 ELSE 0]
        ELSE [ok |-> TRUE, plugin |-> [library |-> "open", vtable |-> v.vtable],
              err |-> <<>>, opens |-> 1, lookups |-> v.lookups,
              libState |-> "open", closes |-> 0]

\* Plugin::try_new that leaves the library open when the resolution fails.
Plugin_try_new_KeepsLibraryOpen(library_path) ==
    IF ~library_path.openable
    THEN [ok |-> FALSE, plugin |-> NoInstance.plugin, err |-> <<DlOpenError>>,
          opens |-> 1, lookups |-> <<>>, libState |-> "unopened", closes |-> 0]
    ELSE LET v == VTableV0_try_new(library_path)
         IN  IF ~v.ok
             THEN [ok |-> FALSE, plugin |-> NoInstance.plugin, err |-> v.err,
                   opens |-> 1, lookups |-> v.lookups, libState |-> "open",
                   closes |-> 0]
             ELSE [ok |-> TRUE, plugin |-> [library |-> "open", vtable |-> v.vtable],
                   err |-> <<>>, opens |-> 1, lookups |-> v.lookups,
                   libState |-> "open", closes |-> 0]

\* Plugin::try_new: open the library, then resolve the table.  When the
\* resolution fails the local `library` is dropped on the way out.
Plugin_try_new(library_path) ==
    IF ~library_path.openable
    THEN [ok |-> FALSE, plugin |-> NoInstance.plugin, err |-> <<DlOpenError>>,
          opens |-> 1, lookups |-> <<>>, libState |-> "unopened", closes |-> 0]
    ELSE LET v == VTableV0_try_new(library_path)
         IN  IF ~v.ok
             THEN [ok |-> FALSE, plugin |-> NoInstance.plugin, err |-> v.err,
                   opens |-> 1, lookups |-> v.lookups, libState |-> "closed",
                   closes |-> 1]
             ELSE [ok |-> TRUE, plugin |-> [library |-> "open", vtable |-> v.vtable],
                   err |-> <<>>, opens |-> 1, lookups |-> v.lookups,
                   libState |-> "open", closes |-> 0]

\* ProcMacroInstance::try_new that builds the instance whatever
\* Plugin::try_new returned.
ProcMacroInstance_try_new_IgnoresError(pkg, library_path) ==
    LET p == Plugin_try_new(library_path)
    IN  [load |-> p,
         instance |-> [exists |-> TRUE, package_id |-> pkg, plugin |-> p.plugin]]

\* ProcMacroInstance::try_new: the instance exists only when Plugin::try_new
\* returned Ok.
ProcMacroInstance_try_new(pkg, library_path) ==
    LET p == Plugin_try_new(library_path)
    IN  [load |-> p,
         instance |-> IF p.ok
                      THEN [exists |-> TRUE, package_id |-> pkg, plugin |-> p.plugin]
                      ELSE NoInstance]

\* ------------------------------------------------------------ conversions
\* TokenStream::into_stable: the text as a NUL-terminated C string.
TokenStream_into_stable(ts) == Append(ts, NUL)

\* Reading a C string: the bytes before the first NUL.
RECURSIVE CStrRead(_)
CStrRead(bytes) ==
    IF bytes = <<>> \/ Head(bytes) = NUL THEN <<>>
    ELSE <<Head(bytes)>> \o CStrRead(Tail(bytes))

Upper(ch) ==
    CASE ch = "f" -> "F"
      [] ch = "o" -> "O"
      [] OTHER -> ch

\* What the library's expand computes from the text it reads.
PluginTransform(kind, ts) ==
    IF kind = "upper" THEN [i \in 1..Len(ts) |-> Upper(ts[i])] ELSE ts

\* ------------------------------------------------------------------ heap
Allocated == DOMAIN heap
NewValue(owner, kind, data) ==
    [owner |-> owner, kind |-> kind, data |-> data,
     released |-> 0,    \* times the host took ownership and dropped it
     reads |-> 0,       \* times the host read it through a reference
     freed |-> 0,       \* times the plugin's free_result was given it
     staleReads |-> 0]  \* host reads made after it was freed
\* A value the host touches without anyone having allocated it.
Unknown == [owner |-> "nobody", kind |-> "none", data |-> <<>>,
            released |-> 0, reads |-> 0, freed |-> 0, staleReads |-> 0]
Cell(hp, h) == IF h \in DOMAIN hp THEN hp[h] ELSE Unknown
Alloc(hp, h, v) == (h :> v) @@ hp
Put(hp, h, v) == (h :> v) @@ hp
Release(hp, h) == Put(hp, h, [Cell(hp, h) EXCEPT !.released = @ + 1])
Free(hp, h) == Put(hp, h, [Cell(hp, h) EXCEPT !.freed = @ + 1])
Forget(hp, c) == [h \in {x \in DOMAIN hp : x.call # c} |-> hp[h]]
Read(hp, h) ==
    Put(hp, h, [Cell(hp, h) EXCEPT !.reads = @ + 1,
                                   !.staleReads = @ + (IF Cell(hp, h).freed > 0
                                                        \/ Cell(hp, h).released > 0
                                                       THEN 1 ELSE 0)])

\* ------------------------------------------------------------- accessors
NoObservation == [fn |-> "none", value |-> <<>>]

\* self.package_id
ProcMacroInstance_package_id(self) == self.package_id

\* vec![self.package_id.name.to_string()]
ProcMacroInstance_declared_attributes(self) == <<self.package_id>>

\* --------------------------------------------------------------- threads
IdleThread ==
    [op |-> "idle", pc |-> 0, call |-> 0,
     token_stream |-> <<>>, stable_token_stream |-> NoHandle,
     stable_result |-> NoWrapper, result |-> NoResult,
     aux_data |-> <<>>, stable_aux |-> <<>>, slice |-> NoHandle,
     returned |-> NoHandle, trace |-> <<>>]

\* generate_code with free_result called before the output is converted.
GenerateCodeSteps_FreesBeforeRead ==
    <<"into_stable", "expand_call", "expand_ret", "from_owned_stable",
      "free_result_call", "free_result_ret", "from_stable", "return">>

\* generate_code that goes on without waiting for expand to return.
GenerateCodeSteps_DoesNotAwaitExpand ==
    <<"into_stable", "expand_call", "from_owned_stable", "from_stable",
      "free_result_call", "free_result_ret", "return">>

\* generate_code that calls expand a second time.
GenerateCodeSteps_RetriesExpand ==
    <<"into_stable", "expand_call", "expand_ret", "expand_call", "expand_ret",
      "from_owned_stable", "from_stable", "free_result_call", "free_result_ret",
      "return">>

\* generate_code that waits, after expand has returned, for a signal nobody
\* sends.
GenerateCodeSteps_WaitsForSignal ==
    <<"into_stable", "expand_call", "expand_ret", "wait_for_signal",
      "from_owned_stable", "from_stable", "free_result_call", "free_result_ret",
      "return">>

\* generate_code, statement by statement (a foreign call is call + return).
GenerateCodeSteps ==
    <<"into_stable", "expand_call", "expand_ret", "from_owned_stable",
      "from_stable", "free_result_call", "free_result_ret", "return">>

\* aux_data_callback that returns without calling the plugin.
AuxDataCallbackSteps_ReturnsEarly ==
    <<"aux_into_stable", "slice_new", "return">>

\* aux_data_callback, statement by statement.
AuxDataCallbackSteps ==
    <<"aux_into_stable", "slice_new", "callback_call", "callback_ret",
      "into_owned", "return">>

StepsOf(op) ==
    CASE op = "generate_code" -> GenerateCodeSteps
      [] op = "aux_data_callback" -> AuxDataCallbackSteps
      [] OTHER -> <<>>

\* The statement thread t executes next: "idle" before its first call,
\* "done" once the call has returned.
Step(t) ==
    IF th[t].op = "idle" THEN "idle"
    ELSE IF th[t].pc > Len(StepsOf(th[t].op)) THEN "done"
    ELSE StepsOf(th[t].op)[th[t].pc]

InCall(t) == Step(t) \notin {"idle", "done"}
InForeign(t) == Step(t) \in {"expand_ret", "free_result_ret", "callback_ret"}

Event(name, h) == [ev |-> name, h |-> h]
Advance(t, rec) ==
    th' = [th EXCEPT ![t] = [rec EXCEPT !.pc = @ + 1]]
Log(rec, name, h) == [rec EXCEPT !.trace = Append(@, Event(name, h))]

\* --------------------------------------------------------------- actions
Init ==
    /\ module \in Modules
    /\ package \in PackageIds
    /\ plugin \in PluginKinds
    /\ loadState = "none"
    /\ loadError = <<>>
    /\ lookups = <<>>
    /\ opens = 0
    /\ libState = "unopened"
    /\ closes = 0
    /\ instance = NoInstance
    /\ th = [t \in Threads |-> IdleThread]
    /\ heap = <<>>
    /\ started = 0
    /\ ffi = [f \in SymbolSet |-> 0]
    /\ observed = NoObservation
    /\ inflight = 0

\* ProcMacroInstance::try_new(package, config).
Load ==
    /\ loadState = "none"
    /\ LET r == ProcMacroInstance_try_new(package, module)
       IN  /\ instance' = r.instance
           /\ loadState' = IF r.load.ok THEN "loaded" ELSE "failed"
           /\ loadError' = r.load.err
           /\ lookups' = lookups \o r.load.lookups
           /\ opens' = opens + r.load.opens
           /\ libState' = r.load.libState
           /\ closes' = closes + r.load.closes
    /\ UNCHANGED <<envVars, th, heap, started, ffi, inflight>>

\* A drop that does not wait for the calls in progress.
Droppable_Anytime == TRUE

\* The instance can be dropped only when no `&self` borrow is alive, that
\* is when no thread is inside generate_code or aux_data_callback.
Droppable == \A t \in Threads : ~InCall(t)

\* Drop of the ProcMacroInstance: its Plugin goes, and with it the Library
\* and the VTableV0 it holds.
DropInstance ==
    /\ instance.exists
    /\ Droppable
    /\ instance' = NoInstance
    /\ loadState' = "dropped"
    /\ libState' = "closed"
    /\ closes' = closes + 1
    /\ UNCHANGED <<envVars, loadError, lookups, opens, th, heap, started, ffi, inflight>>

\* A host thread calls instance.generate_code(token_stream).
StartGenerateCode(t) ==
    /\ instance.exists
    /\ ~InCall(t)
    /\ started < MaxCalls
    /\ \E ts \in TokenInputs :
        th' = [th EXCEPT ![t] = [IdleThread EXCEPT !.op = "generate_code",
                                                   !.pc = 1,
                                                   !.call = t,
                                                   !.token_stream = ts]]
    /\ started' = started + 1
    /\ heap' = Forget(heap, t)
    /\ UNCHANGED <<envVars, loadVars, ffi, inflight>>

\* let stable_token_stream = token_stream.into_stable();
IntoStable(t) ==
    /\ Step(t) = "into_stable"
    /\ LET h == Handle(th[t].call, "input", 0)
       IN  /\ heap' = Alloc(heap, h, NewValue("host", "token_stream",
                                  TokenStream_into_stable(th[t].token_stream)))
           /\ Advance(t, Log([th[t] EXCEPT !.stable_token_stream = h],
                             "into_stable", h))
    /\ UNCHANGED <<envVars, loadVars, started, ffi, inflight>>

\* A call of expand that looks the symbol up again instead of using the
\* pointer resolved at load.
ExpandCall_ReResolves(t) ==
    /\ Step(t) = "expand_call"
    /\ inflight' = inflight + 1
    /\ ffi' = [ffi EXCEPT !["expand"] = @ + 1]
    /\ lookups' = Append(lookups, "expand")
    /\ Advance(t, Log(th[t], "expand", th[t].stable_token_stream))
    /\ UNCHANGED <<envVars, loadState, loadError, opens, libState, closes,
                   instance, heap, started>>

\* (self.plugin.vtable.expand)(stable_token_stream): control enters the plugin.
ExpandCall(t) ==
    /\ Step(t) = "expand_call"
    /\ inflight' = inflight + 1
    /\ ffi' = [ffi EXCEPT !["expand"] = @ + 1]
    /\ Advance(t, Log(th[t], "expand", th[t].stable_token_stream))
    /\ UNCHANGED <<envVars, loadVars, heap, started>>

\* The wrapper a plugin returns: a freshly allocated output, and as input
\* either the handle it was given (echo) or another C string of its own.
ExpandRet(t) ==
    /\ inflight' = inflight - 1
    /\ Step(t) = "expand_ret"
    /\ \E echo \in BOOLEAN :
        LET arg == th[t].stable_token_stream
            text == CStrRead(Cell(heap, arg).data)
            out == Handle(th[t].call, "output", 0)
            own == Handle(th[t].call, "plugin_input", 0)
            outv == NewValue("plugin", "result",
                             TokenStream_into_stable(PluginTransform(plugin, text)))
            hp1 == Alloc(heap, out, outv)
            hp2 == IF echo THEN hp1
                   ELSE Alloc(hp1, own, NewValue("plugin", "token_stream",
                                                 Cell(heap, arg).data))
            w == [input |-> IF echo THEN arg ELSE own, output |-> out]
        IN  /\ heap' = hp2
            /\ Advance(t, Log([th[t] EXCEPT !.stable_result = w], "expand_ret", out))
    /\ UNCHANGED <<envVars, loadVars, started, ffi>>

\* Releasing the other field of the wrapper.
ReleasedInput_Output(rec) == rec.stable_result.output

\* The wire value generate_code hands to TokenStream::from_owned_stable.
ReleasedInput(rec) == rec.stable_result.input

\* unsafe { TokenStream::from_owned_stable(stable_result.input); }
FromOwnedStable(t) ==
    /\ Step(t) = "from_owned_stable"
    /\ heap' = Release(heap, ReleasedInput(th[t]))
    /\ Advance(t, Log(th[t], "from_owned_stable", ReleasedInput(th[t])))
    /\ UNCHANGED <<envVars, loadVars, started, ffi, inflight>>

\* What a read of wire value h can yield: its text while it is alive, any
\* text at all once it has been released or freed (a dangling pointer).
ReadableTexts(hp, h) ==
    IF Cell(hp, h).freed > 0 \/ Cell(hp, h).released > 0
    THEN TokenInputs \cup {<<"?">>}
    ELSE {CStrRead(Cell(hp, h).data)}

\* Converting the input field of the wrapper instead of its output.
ConvertedOutput_Input(rec) == rec.stable_result.input

\* The wire value generate_code converts into the native result.
ConvertedOutput(rec) == rec.stable_result.output

\* let result = unsafe { ProcMacroResult::from_stable(&stable_result.output) };
FromStable(t) ==
    /\ Step(t) = "from_stable"
    /\ LET out == ConvertedOutput(th[t])
       IN  /\ heap' = Read(heap, out)
           /\ \E text \in ReadableTexts(heap, out) :
                Advance(t, Log([th[t] EXCEPT !.result = [present |-> TRUE,
                                                         token_stream |-> text]],
                               "from_stable", out))
    /\ UNCHANGED <<envVars, loadVars, started, ffi, inflight>>

\* Handing free_result the input field of the wrapper.
FreeResultArg_Input(rec) == rec.stable_result.input

\* Handing free_result the output kept in a slot shared by all the calls on
\* the instance, instead of the caller's own local.
FreeResultArg_SharedSlot(rec) ==
    LET holders == {t \in Threads : th[t].stable_result.output # NoHandle}
    IN  th[CHOOSE t \in holders : \A u \in holders : t <= u].stable_result.output

\* The wire value generate_code hands to the free_result entry point.
FreeResultArg(rec) == rec.stable_result.output

\* (self.plugin.vtable.free_result)(stable_result.output): the plugin frees it.
FreeResultCall(t) ==
    /\ Step(t) = "free_result_call"
    /\ inflight' = inflight + 1
    /\ ffi' = [ffi EXCEPT !["free_result"] = @ + 1]
    /\ heap' = Free(heap, FreeResultArg(th[t]))
    /\ Advance(t, Log(th[t], "free_result", FreeResultArg(th[t])))
    /\ UNCHANGED <<envVars, loadVars, started>>

FreeResultRet(t) ==
    /\ inflight' = inflight - 1
    /\ Step(t) = "free_result_ret"
    /\ Advance(t, th[t])
    /\ UNCHANGED <<envVars, loadVars, heap, started, ffi>>

\* The end of either method: the call returns to the host.
Return(t) ==
    /\ Step(t) = "return"
    /\ Advance(t, Log(th[t], "return", NoHandle))
    /\ UNCHANGED <<envVars, loadVars, heap, started, ffi, inflight>>

\* A host thread calls instance.aux_data_callback(aux_data).
StartAuxDataCallback(t) ==
    /\ instance.exists
    /\ ~InCall(t)
    /\ started < MaxCalls
    /\ \E aux \in AuxInputs :
        th' = [th EXCEPT ![t] = [IdleThread EXCEPT !.op = "aux_data_callback",
                                                   !.pc = 1,
                                                   !.call = t,
                                                   !.aux_data = aux]]
    /\ started' = started + 1
    /\ heap' = Forget(heap, t)
    /\ UNCHANGED <<envVars, loadVars, ffi, inflight>>

\* The wire values of the elements: one into_stable per element.
ElemHandles(c, aux) == [i \in 1..Len(aux) |-> Handle(c, "elem", i)]

\* aux_data.into_iter().map(|a| a.into_stable()).collect::<Vec<_>>()
AuxIntoStable(t) ==
    /\ Step(t) = "aux_into_stable"
    /\ LET hs == ElemHandles(th[t].call, th[t].aux_data)
           cells == [h \in {hs[i] : i \in 1..Len(hs)} |->
                        NewValue("host", "aux_data", <<th[t].aux_data[h.idx]>>)]
           evs == [i \in 1..Len(hs) |-> Event("aux_into_stable", hs[i])]
       IN  /\ heap' = cells @@ heap
           /\ Advance(t, [th[t] EXCEPT !.stable_aux = hs, !.trace = @ \o evs])
    /\ UNCHANGED <<envVars, loadVars, started, ffi, inflight>>

\* let aux_data = StableSlice::new(aux_data);
SliceNew(t) ==
    /\ Step(t) = "slice_new"
    /\ LET h == Handle(th[t].call, "slice", 0)
       IN  /\ heap' = Alloc(heap, h, NewValue("host", "slice", th[t].stable_aux))
           /\ Advance(t, Log([th[t] EXCEPT !.slice = h], "slice_new", h))
    /\ UNCHANGED <<envVars, loadVars, started, ffi, inflight>>

\* (self.plugin.vtable.aux_data_callback)(aux_data): control enters the plugin.
CallbackCall(t) ==
    /\ Step(t) = "callback_call"
    /\ inflight' = inflight + 1
    /\ ffi' = [ffi EXCEPT !["aux_data_callback"] = @ + 1]
    /\ Advance(t, Log(th[t], "aux_data_callback", th[t].slice))
    /\ UNCHANGED <<envVars, loadVars, heap, started>>

\* The slice a plugin returns: the one it was given, or a new one of its own.
CallbackRet(t) ==
    /\ inflight' = inflight - 1
    /\ Step(t) = "callback_ret"
    /\ \E same \in BOOLEAN :
        LET own == Handle(th[t].call, "plugin_slice", 0)
            ret == IF same THEN th[t].slice ELSE own
        IN  /\ heap' = IF same THEN heap
                       ELSE Alloc(heap, own, NewValue("plugin", "slice",
                                                      Cell(heap, th[t].slice).data))
            /\ Advance(t, Log([th[t] EXCEPT !.returned = ret], "callback_ret", ret))
    /\ UNCHANGED <<envVars, loadVars, started, ffi>>

\* Releasing the slice that was sent instead of the one that came back.
IntoOwnedReleases_SentSlice(rec) == {rec.slice}

\* The wire values `let _ = aux_data.into_owned();` takes and drops: the
\* returned slice (the Vec's buffer) and nothing else.
IntoOwnedReleases(rec) == {rec.returned}

RECURSIVE ReleaseAll(_, _)
ReleaseAll(hp, hs) ==
    IF hs = {} THEN hp
    ELSE LET h == CHOOSE x \in hs : TRUE
         IN  ReleaseAll(Release(hp, h), hs \ {h})

\* let _ = aux_data.into_owned();
IntoOwned(t) ==
    /\ Step(t) = "into_owned"
    /\ heap' = ReleaseAll(heap, IntoOwnedReleases(th[t]))
    /\ Advance(t, Log(th[t], "into_owned", th[t].returned))
    /\ UNCHANGED <<envVars, loadVars, started, ffi, inflight>>

\* One statement of thread t, in whichever call it is.
ThreadStep(t) ==
    \/ StartGenerateCode(t)
    \/ IntoStable(t)
    \/ ExpandCall(t)
    \/ ExpandRet(t)
    \/ FromOwnedStable(t)
    \/ FromStable(t)
    \/ FreeResultCall(t)
    \/ FreeResultRet(t)
    \/ StartAuxDataCallback(t)
    \/ AuxIntoStable(t)
    \/ SliceNew(t)
    \/ CallbackCall(t)
    \/ CallbackRet(t)
    \/ IntoOwned(t)
    \/ Return(t)

Next ==
    \/ Load
    \/ DropInstance
    \/ \E t \in Threads : ThreadStep(t)

Spec == Init /\ [][Next]_vars

\* The statements of a call in progress on thread t (all of ThreadStep but
\* the two entries).
CallStep(t) ==
    \/ IntoStable(t)
    \/ ExpandCall(t)
    \/ ExpandRet(t)
    \/ FromOwnedStable(t)
    \/ FromStable(t)
    \/ FreeResultCall(t)
    \/ FreeResultRet(t)
    \/ AuxIntoStable(t)
    \/ SliceNew(t)
    \/ CallbackCall(t)
    \/ CallbackRet(t)
    \/ IntoOwned(t)
    \/ Return(t)

\* A thread inside a call keeps running: it executes its next statement, and
\* a foreign entry point it has entered returns.
SpecLive == Init /\ [][Next]_vars /\ \A t \in Threads : WF_vars(CallStep(t))

\* A host thread reads instance.package_id().
PackageIdCall ==
    /\ instance.exists
    /\ observed' = [fn |-> "package_id",
                    value |-> <<ProcMacroInstance_package_id(instance)>>]
    /\ UNCHANGED <<fixedVars, loadVars, th, heap, started, ffi, inflight>>

\* A host thread reads instance.declared_attributes().
DeclaredAttributesCall ==
    /\ instance.exists
    /\ observed' = [fn |-> "declared_attributes",
                    value |-> ProcMacroInstance_declared_attributes(instance)]
    /\ UNCHANGED <<fixedVars, loadVars, th, heap, started, ffi, inflight>>

\* One thread calls into the instance while the metadata accessors are read
\* at any point in between.
Caller == CHOOSE t \in Threads : TRUE

NextWithAccessors ==
    \/ Load
    \/ DropInstance
    \/ ThreadStep(Caller)
    \/ PackageIdCall
    \/ DeclaredAttributesCall

SpecAccessors == Init /\ [][NextWithAccessors]_vars

\* ------------------------------------------------------------ properties
Positions(tr, name) == {i \in 1..Len(tr) : tr[i].ev = name}
Count(tr, name) == Cardinality(Positions(tr, name))
EvNames(tr) == [i \in 1..Len(tr) |-> tr[i].ev]
IsPrefix(a, b) == Len(a) <= Len(b) /\ \A i \in 1..Len(a) : a[i] = b[i]
Finished(t, op) == th[t].op = op /\ Step(t) = "done"
OwnCells(t) == {h \in DOMAIN heap : h.call = t}

\* C1: every generate_code call invokes free_result exactly once, on the
\* output its own expand call returned; free_result is invoked on nothing
\* that expand did not produce, and by no other operation.
C1_FreeResultOncePerExpand ==
    /\ \A t \in Threads :
        /\ Count(th[t].trace, "free_result") <= 1
        /\ Finished(t, "generate_code") => Count(th[t].trace, "free_result") = 1
        /\ \A i \in Positions(th[t].trace, "free_result") :
            /\ th[t].op = "generate_code"
            /\ \E j \in Positions(th[t].trace, "expand_ret") :
                j < i /\ th[t].trace[j].h = th[t].trace[i].h
    /\ \A h \in DOMAIN heap :
        heap[h].freed > 0 =>
            heap[h].freed = 1 /\ heap[h].kind = "result" /\ heap[h].owner = "plugin"
    /\ ffi["free_result"] <= ffi["expand"]

C1_Witness ==
    \E t \in Threads :
        /\ Finished(t, "generate_code")
        /\ Cell(heap, th[t].stable_result.output).freed = 1

\* C2 as stated: when a call has returned, every wire value the host made
\* with into_stable / StableSlice::new in it has been taken back exactly
\* once, and no wire value was taken back twice or read after its release.
C2_EveryHostWireValueReleasedOnce ==
    /\ \A t \in Threads :
        Step(t) = "done" =>
            \A h \in OwnCells(t) : heap[h].owner = "host" => heap[h].released = 1
    /\ \A h \in DOMAIN heap :
        heap[h].released <= 1 /\ heap[h].freed <= 1 /\ heap[h].staleReads = 0

\* C3: the statements of generate_code run in the order into_stable,
\* expand, release of the input, from_stable of the output, free_result,
\* return; the output is never read once free_result was given it.
ExpandOrder ==
    <<"into_stable", "expand", "expand_ret", "from_owned_stable", "from_stable",
      "free_result", "return">>

C3_ExpandStepOrder ==
    /\ \A t \in Threads :
        th[t].op = "generate_code" =>
            /\ IsPrefix(EvNames(th[t].trace), ExpandOrder)
            /\ Finished(t, "generate_code") => EvNames(th[t].trace) = ExpandOrder
            /\ th[t].result.present => Count(th[t].trace, "from_stable") = 1
    /\ \A h \in DOMAIN heap : heap[h].kind = "result" => heap[h].staleReads = 0

C3_Witness ==
    \E t \in Threads :
        /\ Finished(t, "generate_code")
        /\ th[t].result.present
        /\ Cell(heap, th[t].stable_result.output).reads = 1
        /\ Cell(heap, th[t].stable_result.output).freed = 1

C5_ReturnedSliceReleasedOnce ==
    \A t \in Threads :
        th[t].op = "aux_data_callback" =>
            /\ Count(th[t].trace, "into_owned") <= 1
            /\ \A i \in Positions(th[t].trace, "into_owned") :
                /\ \E j \in Positions(th[t].trace, "callback_ret") :
                    j < i /\ th[t].trace[j].h = th[t].returned
                /\ Count(SubSeq(th[t].trace, 1, i), "return") = 0
            /\ Finished(t, "aux_data_callback") =>
                /\ Count(th[t].trace, "into_owned") = 1
                /\ Cell(heap, th[t].returned).released = 1

C5_WitnessNewSlice ==
    \E t \in Threads :
        /\ Finished(t, "aux_data_callback")
        /\ th[t].returned # th[t].slice
        /\ Cell(heap, th[t].returned).released = 1

LoadReturned == loadState # "none"
LoadSucceeded == loadState \in {"loaded", "dropped"}
NamesSymbol(err, name) == err # <<>> /\ err[1] = ContextMsg(name)

\* C6: for an openable library exporting any subset of the three symbols,
\* load succeeds exactly when all three are exported, and otherwise fails
\* with an error whose message names a symbol the library does not export.
C6_LoadIffAllSymbols ==
    (LoadReturned /\ module.openable) =>
        /\ LoadSucceeded <=> module.exports = SymbolSet
        /\ LoadSucceeded => loadError = <<>>
        /\ loadState = "failed" =>
            \E name \in SymbolSet \ module.exports :
                /\ NamesSymbol(loadError, name)
                /\ \A other \in SymbolSet \ {name} : ~NamesSymbol(loadError, other)

C6_WitnessMissing ==
    /\ loadState = "failed"
    /\ module.openable
    /\ module.exports = {"expand", "aux_data_callback"}
    /\ NamesSymbol(loadError, "free_result")

\* C7: a load of a path that cannot be opened fails with an error that no
\* missing-symbol failure produces, and looks up no symbol.
C7_OpenFailureDistinct ==
    (LoadReturned /\ ~module.openable) =>
        /\ loadState = "failed"
        /\ lookups = <<>>
        /\ \A name \in SymbolSet : ~NamesSymbol(loadError, name)
        /\ \A m \in Modules : m.openable => VTableV0_try_new(m).err # loadError

C7_Witness ==
    /\ loadState = "failed"
    /\ ~module.openable
    /\ opens = 1

\* C8: the library of an instance is closed exactly once, by the drop of the
\* instance, which takes the entry points with it; while the library is
\* closed no thread is inside generate_code or aux_data_callback.
C8_HandleReleasedOnceAtDrop ==
    /\ closes <= 1
    /\ loadState = "loaded" =>
        /\ closes = 0 /\ libState = "open"
        /\ instance.exists /\ instance.plugin.library = "open"
    /\ loadState = "dropped" =>
        /\ closes = 1 /\ libState = "closed"
        /\ ~instance.exists /\ instance.plugin.vtable = NoVTable
    /\ libState = "closed" => \A t \in Threads : ~InCall(t)

C8_Witness ==
    /\ loadState = "dropped"
    /\ closes = 1
    /\ ffi["expand"] > 0
    /\ ffi["aux_data_callback"] > 0

\* C9: a foreign entry point is invoked, and an instance exists, only after
\* a load that opened the library and resolved all three symbols; after a
\* failed load there is no instance and no call.
AnyCall ==
    \/ \E f \in SymbolSet : ffi[f] > 0
    \/ \E t \in Threads : th[t].op # "idle"
    \/ started > 0

C9_NoCallWithoutLoad ==
    /\ (AnyCall \/ instance.exists) =>
        /\ LoadSucceeded
        /\ module.openable /\ module.exports = SymbolSet
    /\ instance.exists =>
        \A f \in SymbolSet : instance.plugin.vtable[f] = f
    /\ loadState \in {"none", "failed"} => ~instance.exists /\ ~AnyCall

C9_WitnessFailedLoad ==
    /\ loadState = "failed"
    /\ module.openable
    /\ module.exports # {}
    /\ ~instance.exists

\* C10: aux_data_callback on an empty vector converts no element, invokes
\* the callback once, with an empty slice, and releases the returned slice
\* once.
C10_EmptyAuxData ==
    \A t \in Threads :
        (th[t].op = "aux_data_callback" /\ th[t].aux_data = <<>>) =>
            /\ Count(th[t].trace, "aux_into_stable") = 0
            /\ \A h \in OwnCells(t) : heap[h].kind # "aux_data"
            /\ Count(th[t].trace, "aux_data_callback") <= 1
            /\ \A i \in Positions(th[t].trace, "aux_data_callback") :
                /\ th[t].trace[i].h = th[t].slice
                /\ heap[th[t].slice].data = <<>>
            /\ Finished(t, "aux_data_callback") =>
                /\ Count(th[t].trace, "aux_data_callback") = 1
                /\ Count(th[t].trace, "into_owned") = 1
                /\ \A h \in OwnCells(t) :
                    heap[h].released = (IF h = th[t].returned THEN 1 ELSE 0)

C10_Witness ==
    \E t \in Threads :
        /\ Finished(t, "aux_data_callback")
        /\ th[t].aux_data = <<>>
        /\ Cell(heap, th[t].returned).released = 1

\* C11: the token stream of the native result is exactly what the plugin's
\* expand made of the input text, and stays so after the input was released
\* and free_result was called: an identity plugin gives the input back, an
\* uppercasing plugin turns "foo" into "FOO", with one free_result call.
Foo == <<"f", "o", "o">>
FOO == <<"F", "O", "O">>

C11_ExpandContentRoundTrip ==
    \A t \in Threads :
        (th[t].op = "generate_code" /\ th[t].result.present) =>
            /\ plugin = "identity" => th[t].result.token_stream = th[t].token_stream
            /\ plugin = "upper" =>
                /\ Len(th[t].result.token_stream) = Len(th[t].token_stream)
                /\ \A i \in 1..Len(th[t].token_stream) :
                    th[t].result.token_stream[i] = Upper(th[t].token_stream[i])
            /\ (plugin = "upper" /\ th[t].token_stream = Foo) =>
                /\ th[t].result.token_stream = FOO
                /\ Finished(t, "generate_code") =>
                        Count(th[t].trace, "free_result") = 1

C11_WitnessFoo ==
    \E t \in Threads :
        /\ Finished(t, "generate_code")
        /\ plugin = "upper"
        /\ th[t].token_stream = Foo
        /\ th[t].result.token_stream = FOO
        /\ Cell(heap, th[t].stable_result.output).freed = 1
        /\ Cell(heap, th[t].stable_token_stream).released = 1

\* C12: once load has succeeded, the library handle, the three resolved
\* entry points and the package identity of the instance stay as they are
\* until the instance is dropped, whatever is called; no symbol is looked up
\* and nothing is opened after load; an accessor call invokes no foreign
\* entry point, touches no call in progress and always yields the identity.
C12_InstanceImmutableAfterLoad ==
    [][/\ LoadReturned => lookups' = lookups /\ opens' = opens
       /\ instance.exists =>
            \/ instance' = instance /\ libState' = libState /\ closes' = closes
            \/ ~instance'.exists /\ loadState' = "dropped"
       /\ observed' # observed =>
            /\ instance' = instance
            /\ ffi' = ffi /\ th' = th /\ heap' = heap
            /\ observed'.fn \in {"package_id", "declared_attributes"}
            /\ observed'.value = <<package>>]_vars

C12_Witness ==
    /\ instance.exists
    /\ instance.package_id = package
    /\ instance.plugin.library = "open"
    /\ observed.fn = "declared_attributes"
    /\ ffi["expand"] > 0
    /\ ffi["aux_data_callback"] > 0

\* C13: the symbols are looked up in the order expand, free_result,
\* aux_data_callback, up to and including the first one the library does not
\* export and no further; the error names that first missing symbol, also
\* when several are missing; a failed resolution yields no entry point.
LookupOrder == <<"expand", "free_result", "aux_data_callback">>
MissingAt(m) == {i \in 1..Len(LookupOrder) : LookupOrder[i] \notin m.exports}
FirstMissing(m) == CHOOSE i \in MissingAt(m) : \A j \in MissingAt(m) : i <= j

C13_LookupStopsAtFirstMissing ==
    /\ (LoadReturned /\ module.openable) =>
        IF MissingAt(module) = {}
        THEN lookups = LookupOrder
        ELSE /\ lookups = SubSeq(LookupOrder, 1, FirstMissing(module))
             /\ loadState = "failed"
             /\ NamesSymbol(loadError, LookupOrder[FirstMissing(module)])
             /\ ~instance.exists
             /\ instance.plugin.vtable = NoVTable
    /\ \A m \in Modules :
        ~VTableV0_try_new(m).ok => VTableV0_try_new(m).vtable = NoVTable

C13_WitnessTwoMissing ==
    /\ loadState = "failed"
    /\ module.openable
    /\ module.exports = {"expand"}
    /\ lookups = <<"expand", "free_result">>
    /\ NamesSymbol(loadError, "free_result")

\* C14 as stated: at most one foreign call into the loaded library is in
\* flight at any time.
C14_AtMostOneForeignCallInFlight == inflight <= 1

\* C14 amended: the methods take no lock, so every thread inside the plugin
\* accounts for exactly one foreign call in flight, its own, and the number
\* in flight is bounded by the number of threads inside generate_code or
\* aux_data_callback, not by one.
ThreadsInForeign == {t \in Threads : InForeign(t)}
ThreadsInCall == {t \in Threads : InCall(t)}

C14_OneForeignCallPerCallingThread ==
    /\ inflight = Cardinality(ThreadsInForeign)
    /\ inflight <= Cardinality(ThreadsInCall)
    /\ \A t \in ThreadsInForeign :
        th[t].trace[Len(th[t].trace)].ev
            \in {"expand", "free_result", "aux_data_callback"}

C14_WitnessTwoInFlight ==
    /\ inflight = 2
    /\ \E t, u \in Threads :
        /\ t # u
        /\ Step(t) = "expand_ret"
        /\ Step(u) \in {"expand_ret", "callback_ret"}

\* C15: nothing is retried.  A generate_code call invokes expand once and
\* free_result once and never aux_data_callback; an aux_data_callback call
\* invokes the callback once and never expand or free_result; a load opens
\* the library at most once and looks each symbol up at most once.
C15_NoRetries ==
    /\ \A t \in Threads :
        /\ th[t].op = "generate_code" =>
            /\ Count(th[t].trace, "expand") <= 1
            /\ Count(th[t].trace, "free_result") <= 1
            /\ Count(th[t].trace, "aux_data_callback") = 0
            /\ Finished(t, "generate_code") =>
                /\ Count(th[t].trace, "expand") = 1
                /\ Count(th[t].trace, "free_result") = 1
        /\ th[t].op = "aux_data_callback" =>
            /\ Count(th[t].trace, "aux_data_callback") <= 1
            /\ Count(th[t].trace, "expand") = 0
            /\ Count(th[t].trace, "free_result") = 0
            /\ Finished(t, "aux_data_callback") =>
                    Count(th[t].trace, "aux_data_callback") = 1
    /\ ffi["expand"] + ffi["aux_data_callback"] <= started
    /\ ffi["free_result"] <= ffi["expand"]
    /\ opens <= 1
    /\ LoadReturned => opens = 1
    /\ \A i, j \in 1..Len(lookups) : lookups[i] = lookups[j] => i = j

C15_Witness ==
    /\ \E t, u \in Threads :
        /\ Finished(t, "generate_code")
        /\ Finished(u, "aux_data_callback")
    /\ ffi = [expand |-> 1, free_result |-> 1, aux_data_callback |-> 1]
    /\ opens = 1
    /\ Len(lookups) = 3

\* C16: when the library was opened and a symbol is missing, the library is
\* closed exactly once by the time the error is returned and is held
\* nowhere; a failed load leaves no library open.
C16_FailedLoadClosesLibrary ==
    loadState = "failed" =>
        /\ libState # "open"
        /\ ~instance.exists
        /\ instance.plugin.library = "none"
        /\ module.openable => closes = 1 /\ libState = "closed" /\ opens = 1
        /\ ~module.openable => closes = 0 /\ libState = "unopened"

C16_Witness ==
    /\ loadState = "failed"
    /\ module.openable
    /\ module.exports = {"expand", "free_result"}
    /\ NamesSymbol(loadError, "aux_data_callback")
    /\ closes = 1
    /\ libState = "closed"

\* C17: however generate_code calls on one instance interleave, a call
\* releases, converts and frees only wire values of its own (the wrapper it
\* received from its own expand call); every output is freed at most once,
\* and free_result has been invoked once for every expand call except those
\* still between the two.
ExpandsAwaitingFree ==
    {t \in Threads : /\ th[t].op = "generate_code"
                     /\ Count(th[t].trace, "expand") = 1
                     /\ Count(th[t].trace, "free_result") = 0}

C17_WireValuesPrivateToCall ==
    /\ \A t \in Threads :
        th[t].op = "generate_code" =>
            /\ \A i \in 1..Len(th[t].trace) :
                th[t].trace[i].h # NoHandle => th[t].trace[i].h.call = t
            /\ \A i \in Positions(th[t].trace, "from_owned_stable") :
                th[t].trace[i].h = th[t].stable_result.input
            /\ \A i \in Positions(th[t].trace, "from_stable") :
                th[t].trace[i].h = th[t].stable_result.output
            /\ \A i \in Positions(th[t].trace, "free_result") :
                th[t].trace[i].h = th[t].stable_result.output
            /\ th[t].stable_result.output \in {NoHandle, Handle(t, "output", 0)}
    /\ \A h \in DOMAIN heap : heap[h].kind = "result" => heap[h].freed <= 1
    /\ ffi["expand"] - ffi["free_result"] = Cardinality(ExpandsAwaitingFree)

C17_WitnessInterleaved ==
    \E t, u \in Threads :
        /\ t # u
        /\ th[t].op = "generate_code" /\ Step(t) = "free_result_ret"
        /\ th[u].op = "generate_code" /\ Step(u) = "from_stable"
        /\ heap[th[t].stable_result.output].freed = 1
        /\ heap[th[u].stable_result.output].freed = 0
        /\ ffi["expand"] = 2

\* C18: every call that has started completes: a generate_code call gets to
\* its return having invoked free_result and with its native result, an
\* aux_data_callback call gets to its return having released the slice that
\* came back.
CallCompleted(t) ==
    /\ Step(t) = "done"
    /\ th[t].trace[Len(th[t].trace)].ev = "return"
    /\ th[t].op = "generate_code" =>
        /\ Count(th[t].trace, "free_result") = 1
        /\ th[t].result.present
    /\ th[t].op = "aux_data_callback" =>
        /\ Count(th[t].trace, "into_owned") = 1
        /\ Cell(heap, th[t].returned).released = 1

C18_StartedCallsComplete ==
    \A t \in Threads : InCall(t) ~> CallCompleted(t)

C18_Witness ==
    \E t, u \in Threads :
        /\ CallCompleted(t) /\ th[t].op = "generate_code"
        /\ CallCompleted(u) /\ th[u].op = "aux_data_callback"

====
